---- MODULE Spec2Model ----
(***************************************************************************)
(* pigcel: registry of monitoring workbooks (AnimalsDataModel), pools of   *)
(* animals (AnimalsPoolModel), named groups of pools (AnimalsGroupsModel)  *)
(* and the rank statistics evaluated on them.                              *)
(*                                                                         *)
(* The statistical library calls (scipy.stats, scikit_posthocs) are kept   *)
(* symbolic: a p-value records which test produced it and on which         *)
(* samples, so that "which test ran on which data" is checkable.           *)
(***************************************************************************)
EXTENDS Integers, Sequences, FiniteSets, TLC

\* ---------------------------------------------------------------- bounds
\* Files that may be loaded are 1..MaxFiles, pool objects are 1..MaxPools,
\* group names are 1..MaxGroups.
MaxFiles == 2
MaxPools == 2
MaxGroups == 3
MaxBatch == 3

Files == 1..MaxFiles
PoolIds == 1..MaxPools
GroupNames == 1..MaxGroups

\* ------------------------------------------------------- program constants
\* ExcelWorkbookReader.times
times == <<"T-30", "T0", "T10", "T20", "T30", "T1H", "T1H30", "T2H", "T3H", "T4H", "T5H", "T6H">>

TimeIdx == 1..Len(times)

\* numpy.nan, the missing marker (every sampled value is a positive number)
NaN == -1

\* None, the value of a blank cell
None == -2

\* QtCore.Qt.CheckState / ItemDataRole values used by setData
Unchecked == 0
PartiallyChecked == 1
Checked == 2
CheckStateRole == "CheckStateRole"
EditRole == "EditRole"

\* Properties asked for by the queries
Properties == {"A", "B"}

\* Properties and window sizes asked for by the time effect queries of a pool
TimeProperties == {"A", "D", "G"}
TargetTimes == {0, 1, 3, 10, 11}

VARIABLES
    workbooks,  \* AnimalsDataModel._workbooks: sequence of reader objects
    pools,      \* AnimalsPoolModel._animals of every pool object
    groups,     \* AnimalsGroupsModel._groups: ordered name -> [model, selected]
    ret         \* what the last read-only query returned (or raised)

vars == <<workbooks, pools, groups, ret>>

Range(s) == {s[i] : i \in 1..Len(s)}

\* ------------------------------------------------------------- workbooks
\* The content of file f as found on disk, by property and canonical time
\* (NaN here stands for a blank cell of the sheet):
\*   file 1, 4, ..: "A" fully sampled, "B" sampled at T-30 and T0 only,
\*                  "D" sampled at T-30, T0 and T10 only, "G" without baseline
\*   file 2, 5, ..: "A" censored after T1H (death), no "B" row,
\*                  "D" sampled from T1H30 on, "G" fully sampled
\*   file 3, 6, ..: "A" without baseline, "B" sampled on the whole sparse
\*                  schedule, "D" fully sampled, "G" sampled at T-30, T0
\*                  and T10 only
\* "A" and "D" are columns of the sheet 'Data', "G" a row of 'Gaz du sang', "B" and
\* "N" rows of 'NFS'; "N" is sampled on the whole schedule in every file.
\* Values at T0 are the same for every animal (ties).
Template(f) == ((f - 1) % 3) + 1

CellA(f, i) ==
    LET v == IF i = 2 THEN 5 ELSE 10 * i + f
    IN  CASE Template(f) = 1 -> v
          [] Template(f) = 2 -> IF i <= 6 THEN v ELSE NaN
          [] OTHER           -> IF i = 1 THEN NaN ELSE v

CellB(f, i) ==
    LET v == 100 + 10 * i + f
    IN  CASE Template(f) = 1 -> IF i \in {1, 2} THEN v ELSE NaN
          [] OTHER           -> IF i \in {1, 2, 6, 9, 12} THEN v ELSE NaN

CellG(f, i) ==
    LET v == 200 + 10 * i + f
    IN  CASE Template(f) = 1 -> IF i = 1 THEN NaN ELSE v
          [] Template(f) = 2 -> v
          [] OTHER           -> IF i <= 3 THEN v ELSE NaN

CellD(f, i) ==
    LET v == 400 + 10 * i + f
    IN  CASE Template(f) = 1 -> IF i <= 3 THEN v ELSE NaN
          [] Template(f) = 2 -> IF i >= 7 THEN v ELSE NaN
          [] OTHER           -> v

CellN(f, i) == IF i \in {1, 2, 6, 9, 12} THEN 300 + 10 * i + f ELSE NaN

Columns(f) == IF Template(f) = 2 THEN {"A", "D", "G", "N"} ELSE {"A", "B", "D", "G", "N"}

\* cell.value of a cell of the sheet: None when the cell is blank
CellValue(v) == IF v = NaN THEN None ELSE v

\* parse_nfs_worksheet: the canonical index (from 0) each sampled value goes
\* to, and the column (from 0, in D..M) it is read from
nfs_selected_times == <<0, 1, 5, 8, 11>>
nfs_selected_values == <<0, 2, 4, 6, 8>>

\* In 'NFS' the sampled values sit in every other column of D..M; the columns
\* in between hold the percentages
NfsRow(f, p) ==
    [c \in 1..10 |->
        IF \E k \in 1..Len(nfs_selected_values) : nfs_selected_values[k] + 1 = c
        THEN LET k == CHOOSE k \in 1..Len(nfs_selected_values) : nfs_selected_values[k] + 1 = c
                 i == nfs_selected_times[k] + 1
             IN  CellValue(IF p = "B" THEN CellB(f, i) ELSE CellN(f, i))
        ELSE 50]

\* openpyxl.load_workbook(filename): the three data sheets of file f, each
\* with the property names it lists and its block of cells.  'Data' has one
\* row per time and one column per property; 'Gaz du sang' and 'NFS' have one
\* row per property.
load_workbook(f) ==
    [Data |-> [properties |-> <<"A", "D">>,
               cells |-> [i \in TimeIdx |-> <<CellValue(CellA(f, i)), CellValue(CellD(f, i))>>]],
     Gas  |-> [properties |-> <<"G">>,
               cells |-> <<[i \in TimeIdx |-> CellValue(CellG(f, i))]>>],
     NFS  |-> LET properties == IF Template(f) = 2 THEN <<"N">> ELSE <<"B", "N">>
              IN  [properties |-> properties,
                   cells |-> [r \in 1..Len(properties) |-> NfsRow(f, properties[r])]]]

\* ExcelWorkbookReader(filename): the reader object built from a file. Every
\* load builds a new object: object is 1 for the first reader built for the
\* file and 2 for any later one.
ExcelWorkbookReader(f, k) == [filename |-> f, object |-> k]

\* A pandas.DataFrame indexed by the canonical times: the column labels and,
\* for every time, the values of the row in column order
DataFrame(columns, rows) == [columns |-> columns, rows |-> rows]

\* ExcelWorkbookReader.parse_data_worksheet
parse_data_worksheet(book) ==
    LET properties == book.Data.properties
        cells == book.Data.cells
    IN  DataFrame(properties,
                  [i \in TimeIdx |->
                     [c \in 1..Len(properties) |->
                        IF cells[i][c] # None THEN cells[i][c] ELSE NaN]])

\* ExcelWorkbookReader.parse_blood_gas_worksheet; zip(*cells) turns the
\* block read by property into rows by time
parse_blood_gas_worksheet(book) ==
    LET properties == book.Gas.properties
        cells == book.Gas.cells
    IN  DataFrame(properties,
                  [i \in TimeIdx |->
                     [c \in 1..Len(properties) |->
                        IF cells[c][i] # None THEN cells[c][i] ELSE NaN]])

\* What pandas.DataFrame(data, index=properties, columns=times) makes of a
\* None in the column of one time: nan when the column holds a number (the
\* column is converted to float), None when it holds only None (the column
\* keeps its objects)
frame_value(v, column) ==
    IF v = None /\ \E r \in 1..Len(column) : column[r] # None THEN NaN ELSE v

\* the row built from the first five columns of D..M
nfs_row_consecutive(values) ==
    [i \in TimeIdx |->
        IF \E k \in 1..Len(nfs_selected_values) : nfs_selected_times[k] + 1 = i
        THEN values[CHOOSE k \in 1..Len(nfs_selected_values) : nfs_selected_times[k] + 1 = i]
        ELSE NaN]

\* the row parse_nfs_worksheet builds for one property: nan everywhere, then
\* the sampled values at the selected times
nfs_row(values) ==
    [i \in TimeIdx |->
        IF \E k \in 1..Len(nfs_selected_values) : nfs_selected_times[k] + 1 = i
        THEN values[nfs_selected_values[CHOOSE k \in 1..Len(nfs_selected_values) :
                                       nfs_selected_times[k] + 1 = i] + 1]
        ELSE NaN]

\* ExcelWorkbookReader.parse_nfs_worksheet
parse_nfs_worksheet(book) ==
    LET properties == book.NFS.properties
        cells == book.NFS.cells
        data == [r \in 1..Len(properties) |-> nfs_row(cells[r])]
    IN  DataFrame(properties,
                  [i \in TimeIdx |->
                     [c \in 1..Len(properties) |->
                        frame_value(data[c][i], [r \in 1..Len(properties) |-> data[r][i]])]])

\* pandas.concat([a, b], axis=1) of two frames over the same index
concat(a, b) == DataFrame(a.columns \o b.columns, [i \in TimeIdx |-> a.rows[i] \o b.rows[i]])

\* ExcelWorkbookReader.get_data on the sheets of a workbook
book_data(book) ==
    concat(concat(parse_data_worksheet(book), parse_blood_gas_worksheet(book)),
           parse_nfs_worksheet(book))

\* The series of one column of a frame
column_of(frame, label) ==
    LET c == CHOOSE c \in 1..Len(frame.columns) : frame.columns[c] = label
    IN  [i \in TimeIdx |-> frame.rows[i][c]]

\* What the reader of every file gives for get_data: property -> series.
\* A file is not rewritten while the program runs, so every reader of it
\* parses the same table.
ParsedFiles ==
    [f \in Files |->
        LET data == book_data(load_workbook(f))
        IN  [p \in Range(data.columns) |-> column_of(data, p)]]

\* ExcelWorkbookReader.get_data of a reader of the registry
get_data(wb) == ParsedFiles[wb.filename]

\* The selected_times argument of get_property_slice: not given (None), or a list of labels
DefaultTimes == [given |-> FALSE, labels |-> <<>>]
GivenTimes(labels) == [given |-> TRUE, labels |-> labels]

\* The position of a label in the canonical grid
TimeIndexOf(label) == CHOOSE i \in TimeIdx : times[i] = label

\* What a method of the reader hands back: status is "returned" or the
\* name of the exception raised; a returned series is its index and its values
Result(status, value) == [status |-> status, value |-> value]
Series(index, values) == [index |-> index, values |-> values]

\* the selected index in reverse order
selected_index_reversed(selected_times) ==
    LET kept == IF ~selected_times.given
                THEN times
                ELSE SelectSeq(selected_times.labels, LAMBDA x : x \in Range(times))
    IN  [k \in 1..Len(kept) |-> kept[Len(kept) + 1 - k]]

\* The index get_property_slice selects: data.index when selected_times is
\* None, else the given labels that are in data.index, in the given order
selected_index(selected_times) ==
    IF ~selected_times.given
    THEN times
    ELSE SelectSeq(selected_times.labels, LAMBDA x : x \in Range(times))

\* get_property_slice that takes the first column for a name it does not find
reader_get_property_slice_lenient(book, selected_property, selected_times) ==
    LET data == book_data(book)
        selected == selected_index(selected_times)
        c == IF selected_property \in Range(data.columns)
             THEN CHOOSE c \in 1..Len(data.columns) : data.columns[c] = selected_property
             ELSE 1
    IN  IF selected = <<>>
        THEN Result("raised_InvalidTimeError", <<>>)
        ELSE Result("returned",
                    Series(selected,
                           [k \in 1..Len(selected) |-> data.rows[TimeIndexOf(selected[k])][c]]))

\* ExcelWorkbookReader.get_property_slice, on the sheets of the reader's workbook
reader_get_property_slice(book, selected_property, selected_times) ==
    LET data == book_data(book)
        selected == selected_index(selected_times)
    IN  IF selected_property \notin Range(data.columns)
        THEN Result("raised_UnknownPropertyError", <<>>)
        ELSE IF selected = <<>>
        THEN Result("raised_InvalidTimeError", <<>>)
        ELSE Result("returned",
                    Series(selected,
                           [k \in 1..Len(selected) |->
                              column_of(data, selected_property)[TimeIndexOf(selected[k])]]))

\* ExcelWorkbookReader.get_time_slice, on the sheets of the reader's workbook
reader_get_time_slice(book, selected_time) ==
    IF selected_time \notin Range(times)
    THEN Result("raised_InvalidTimeError", <<>>)
    ELSE LET data == book_data(book)
         IN  Result("returned", Series(data.columns, data.rows[TimeIndexOf(selected_time)]))

\* ---------------------------------------------------------- AnimalsDataModel
\* AnimalsDataModel.rowCount
data_rowCount(wbs) == Len(wbs)

\* AnimalsDataModel.data(index(i), DisplayRole), i counted from 0
data_display(wbs, i) == wbs[i + 1].filename

\* add_workbook storing the new reader in place of the known one
add_workbook_replacing(wbs, workbook) ==
    IF \E i \in 1..Len(wbs) : wbs[i].filename = workbook.filename
    THEN [i \in 1..Len(wbs) |-> IF wbs[i].filename = workbook.filename THEN workbook ELSE wbs[i]]
    ELSE Append(wbs, workbook)

\* AnimalsDataModel.add_workbook
add_workbook(wbs, workbook) ==
    LET filenames == [i \in 1..Len(wbs) |-> wbs[i].filename]
    IN  IF workbook.filename \in Range(filenames) THEN wbs ELSE Append(wbs, workbook)

\* ------------------------------------------------- a batch of chosen sources
\* The sources a file dialog can hand over: the files of the catalogue and
\* two others, one without its 'NFS' sheet and one with other sheets only
SheetlessFiles == {MaxFiles + 1, MaxFiles + 2}
Sources == Files \cup SheetlessFiles

\* Workbook.get_sheet_names
get_sheet_names(filename) ==
    IF filename \in Files THEN {"Suivi", "Data", "Gaz du sang", "NFS", "Feuil1"}
    ELSE IF filename = MaxFiles + 1 THEN {"Suivi", "Data", "Gaz du sang"}
    ELSE {"Feuil1", "NFS"}

\* ExcelWorkbookReader.__init__; k tells the objects built for one file apart
reader_init(filename, k) ==
    LET sheet_names == get_sheet_names(filename)
    IN  IF Cardinality(sheet_names \cap {"Suivi", "Data", "Gaz du sang", "NFS"}) # 4
        THEN Result("raised_InvalidExcelWorkbookError", <<>>)
        ELSE Result("returned", ExcelWorkbookReader(filename, k))

\* The loop of on_load_monitoring_file leaving at the first error of a reader
RECURSIVE load_files_aborting(_, _)
load_files_aborting(wbs, xlsx_files) ==
    IF xlsx_files = <<>> THEN [workbooks |-> wbs, n_loaded_files |-> 0, errors |-> <<>>]
    ELSE LET xlsx_file == Head(xlsx_files)
             known == \E i \in 1..Len(wbs) : wbs[i].filename = xlsx_file
             reader == reader_init(xlsx_file, IF known THEN 2 ELSE 1)
         IN  IF reader.status # "returned"
             THEN [workbooks |-> wbs, n_loaded_files |-> 0, errors |-> <<xlsx_file>>]
             ELSE LET rest == load_files_aborting(add_workbook(wbs, reader.value), Tail(xlsx_files))
                  IN  [rest EXCEPT !.n_loaded_files = @ + 1]

\* The loop of MainWindow.on_load_monitoring_file over the chosen files:
\* the registry after it, the number of readers built, the files logged
RECURSIVE load_files(_, _)
load_files(wbs, xlsx_files) ==
    IF xlsx_files = <<>> THEN [workbooks |-> wbs, n_loaded_files |-> 0, errors |-> <<>>]
    ELSE LET xlsx_file == Head(xlsx_files)
             known == \E i \in 1..Len(wbs) : wbs[i].filename = xlsx_file
             reader == reader_init(xlsx_file, IF known THEN 2 ELSE 1)
         IN  IF reader.status # "returned"
             THEN LET rest == load_files(wbs, Tail(xlsx_files))
                  IN  [rest EXCEPT !.errors = <<xlsx_file>> \o @]
             ELSE LET rest == load_files(add_workbook(wbs, reader.value), Tail(xlsx_files))
                  IN  [rest EXCEPT !.n_loaded_files = @ + 1]

\* ---------------------------------------------------------- AnimalsPoolModel
\* add_animal without the test for an animal already in the pool
add_animal_again(animals, wbs, animal) ==
    IF \E i \in 1..Len(wbs) : wbs[i].filename = animal
    THEN Append(animals, animal)
    ELSE animals

\* add_animal without the search of the animal in the data model
add_animal_unloaded(animals, wbs, animal) ==
    IF animal \in {animals[i] : i \in 1..Len(animals)}
    THEN animals
    ELSE Append(animals, animal)

\* AnimalsPoolModel.add_animal
add_animal(animals, wbs, animal) ==
    IF animal \in Range(animals)
    THEN animals
    ELSE IF \E i \in 0..(data_rowCount(wbs) - 1) : data_display(wbs, i) = animal
         THEN Append(animals, animal)
         ELSE animals

\* list.remove: drops the first occurrence
ListRemove(s, x) ==
    LET k == CHOOSE i \in 1..Len(s) : s[i] = x /\ \A j \in 1..(i - 1) : s[j] # x
    IN  [i \in 1..(Len(s) - 1) |-> IF i < k THEN s[i] ELSE s[i + 1]]

\* AnimalsPoolModel.remove_animal
remove_animal(animals, animal) ==
    IF animal \notin Range(animals) THEN animals ELSE ListRemove(animals, animal)

\* -------------------------------------------------------- AnimalsGroupsModel
GroupKeys(grps) == [i \in 1..Len(grps) |-> grps[i].name]

\* add_model without the early return: the entry of a known name is overwritten
add_model_overwriting(grps, name, model) ==
    IF \E i \in 1..Len(grps) : grps[i].name = name
    THEN [i \in 1..Len(grps) |->
            IF grps[i].name = name
            THEN [name |-> name, model |-> model, selected |-> TRUE]
            ELSE grps[i]]
    ELSE Append(grps, [name |-> name, model |-> model, selected |-> TRUE])

\* add_model storing the new group unselected
add_model_unselected(grps, name, model) ==
    IF name \in Range(GroupKeys(grps))
    THEN grps
    ELSE Append(grps, [name |-> name, model |-> model, selected |-> FALSE])

\* AnimalsGroupsModel.add_model
add_model(grps, name, model) ==
    IF name \in Range(GroupKeys(grps))
    THEN grps
    ELSE Append(grps, [name |-> name, model |-> model, selected |-> TRUE])

\* AnimalsGroupsModel.remove_animals_pool_model
remove_animals_pool_model(grps, model) ==
    IF \E i \in 1..Len(grps) : grps[i].model = model
    THEN LET k == CHOOSE i \in 1..Len(grps) :
                     grps[i].model = model /\ \A j \in 1..(i - 1) : grps[j].model # model
         IN  [i \in 1..(Len(grps) - 1) |-> IF i < k THEN grps[i] ELSE grps[i + 1]]
    ELSE grps

\* setData taking every value but Unchecked for a check
setData_truthy(grps, row, value, role) ==
    IF ~(row \in 0..(Len(grps) - 1))
    THEN grps
    ELSE IF role = CheckStateRole
         THEN [grps EXCEPT ![row + 1].selected = (value # Unchecked)]
         ELSE grps

\* AnimalsGroupsModel.setData; row is the index's row, counted from 0, and
\* the index is valid exactly when the row exists
setData(grps, row, value, role) ==
    IF ~(row \in 0..(Len(grps) - 1))
    THEN grps
    ELSE IF role = CheckStateRole
         THEN [grps EXCEPT ![row + 1].selected = (value = Checked)]
         ELSE grps

\* ------------------------------------------------------------ read-only queries
\* AnimalsDataModel.get_workbook: the registry lookup by subject id (the
\* reader whose filename is the animal, or None)
get_workbook(wbs, animal) ==
    IF \E i \in 1..Len(wbs) : wbs[i].filename = animal
    THEN <<wbs[CHOOSE i \in 1..Len(wbs) :
                 wbs[i].filename = animal /\ \A j \in 1..(i - 1) : wbs[j].filename # animal]>>
    ELSE <<>>

\* ExcelWorkbookReader.get_property_slice with selected_times = None:
\* raises UnknownPropertyError when the property is no column of the data
property_slice_raises(wb, selected_property) ==
    selected_property \notin DOMAIN get_data(wb)

get_property_slice(wb, selected_property) == get_data(wb)[selected_property]

\* valid_animals read off the registry: every loaded animal with the property
valid_animals_of_registry(animals, wbs, selected_property) ==
    SelectSeq([i \in 1..Len(wbs) |-> wbs[i].filename], LAMBDA animal :
        ~property_slice_raises(get_workbook(wbs, animal)[1], selected_property))

\* The members get_pool_data keeps: those whose workbook is found and has the property
valid_animals(animals, wbs, selected_property) ==
    SelectSeq(animals, LAMBDA animal :
        /\ get_workbook(wbs, animal) # <<>>
        /\ ~property_slice_raises(get_workbook(wbs, animal)[1], selected_property))

\* AnimalsPoolModel.get_pool_data: raises InvalidPoolData when no member is
\* valid, else the table with one column per valid member, one row per time
pool_data_raises(animals, wbs, selected_property) ==
    valid_animals(animals, wbs, selected_property) = <<>>

get_pool_data(animals, wbs, selected_property) ==
    LET valid == valid_animals(animals, wbs, selected_property)
        slices == [c \in 1..Len(valid) |->
                     get_property_slice(get_workbook(wbs, valid[c])[1], selected_property)]
    IN  [columns |-> valid,
         rows |-> [i \in TimeIdx |-> [c \in 1..Len(valid) |-> slices[c][i]]]]

\* the values of a row with the missing ones left in
nan_kept_values(values_per_animal) == values_per_animal

\* [v for v in values_per_animal if not np.isnan(v)]
nan_filtered_values(values_per_animal) == SelectSeq(values_per_animal, LAMBDA v : v # NaN)

\* numpy.isnan(v).any() over one row of the pool data
any_nan(v) == \E c \in 1..Len(v) : v[c] = NaN

\* ------------------------------------------------------------- library calls
\* A p-value is either nan or the value a named test gave on its samples.
PNaN == [nan |-> TRUE, test |-> "", args |-> <<>>]
PValue(test, args) == [nan |-> FALSE, test |-> test, args |-> args]

\* scipy raises ValueError from mannwhitneyu and kruskal when all numbers
\* are identical.
AllIdentical(samples) ==
    \A g, h \in 1..Len(samples) :
        \A a \in 1..Len(samples[g]), b \in 1..Len(samples[h]) : samples[g][a] = samples[h][b]

\* scipy.stats.friedmanchisquare raises ValueError with fewer than 3 samples
FriedmanRaises(samples) == Len(samples) < 3

\* ------------------------------------------------------------- evaluations
\* What a query hands back: status is "returned", "returned_None" (logged
\* error, no result) or "raised_InvalidPoolData"; reads lists the pools whose
\* get_pool_data was called, in call order.
Outcome(status, value, reads) == [status |-> status, value |-> value, reads |-> reads]

\* get_pool_data giving up at the first member whose slice cannot be read
pool_get_pool_data_strict(animals, wbs, selected_property) ==
    IF valid_animals(animals, wbs, selected_property) # animals \/ animals = <<>>
    THEN Outcome("raised_InvalidPoolData", <<>>, animals)
    ELSE Outcome("returned", get_pool_data(animals, wbs, selected_property), animals)

\* AnimalsPoolModel.get_pool_data as a call: the table, or InvalidPoolData
pool_get_pool_data(animals, wbs, selected_property) ==
    IF pool_data_raises(animals, wbs, selected_property)
    THEN Outcome("raised_InvalidPoolData", <<>>, animals)
    ELSE Outcome("returned", get_pool_data(animals, wbs, selected_property), animals)

\* pigcel.kernel.utils.stats.statistical_functions: the names of the
\* registered reducers, in the order of the registry
statistical_functions == <<"mean", "std", "median">>

\* selected_statistics left at its default, None
StatisticsNone == <<"None">>

\* The statistics a reduction is asked with: None, or a list of names
StatisticsInputs ==
    {StatisticsNone, <<>>, <<"mean">>, <<"median", "mean">>, <<"mean", "mean">>,
     <<"variance">>, <<"variance", "std">>}

\* list(a set): the elements once each, in an order the caller does not choose
list_of_set(S) ==
    {s \in [1..Cardinality(S) -> S] : \A i, j \in 1..Cardinality(S) : i # j => s[i] # s[j]}

\* The lists selected_statistics may be bound to after lines 292-296
selected_statistics_lists(selected_statistics) ==
    IF selected_statistics = StatisticsNone
    THEN {statistical_functions}
    ELSE LET available_statistics_functions == Range(statistical_functions)
         IN  list_of_set(available_statistics_functions \cap Range(selected_statistics))

\* statistical_functions[func](pool_data.to_numpy(), axis=1): one value per row
reduce_rows(func, pool_data) ==
    [i \in TimeIdx |-> [func |-> func, args |-> pool_data.rows[i]]]

\* get_reduced_data reducing with every registered statistic whatever is asked
pool_get_reduced_data_all(animals, wbs, selected_property, selected_statistics) ==
    IF pool_data_raises(animals, wbs, selected_property)
    THEN Outcome("raised_InvalidPoolData", <<>>, <<>>)
    ELSE LET pool_data == get_pool_data(animals, wbs, selected_property)
         IN  Outcome("returned",
                     [columns |-> statistical_functions,
                      rows |-> [i \in TimeIdx |->
                                  [c \in 1..Len(statistical_functions) |->
                                      reduce_rows(statistical_functions[c], pool_data)[i]]]],
                     animals)

\* AnimalsPoolModel.get_reduced_data once selected_statistics is bound to a list
pool_get_reduced_data(animals, wbs, selected_property, selected_statistics) ==
    IF selected_statistics = <<>>
    THEN Outcome("raised_InvalidPoolData", <<>>, <<>>)
    ELSE IF pool_data_raises(animals, wbs, selected_property)
    THEN Outcome("raised_InvalidPoolData", <<>>, animals)
    ELSE LET pool_data == get_pool_data(animals, wbs, selected_property)
         IN  Outcome("returned",
                     [columns |-> selected_statistics,
                      rows |-> [i \in TimeIdx |->
                                  [c \in 1..Len(selected_statistics) |->
                                      reduce_rows(selected_statistics[c], pool_data)[i]]]],
                     animals)

\* every group, whatever its selected flag
all_groups(grps) == grps

\* selected_groups = [(k, v[0]) for k, v in self._groups.items() if v[1]]
selected_groups(grps) == SelectSeq(grps, LAMBDA g : g.selected)

\* group_names = [v[0] for v in selected_groups]
group_names(sel) == [g \in 1..Len(sel) |-> sel[g].name]

\* The pools read by the loop over the selected groups: all of them, or up to
\* and including the first whose get_pool_data raises
pools_read(sel, pls, wbs, selected_property) ==
    LET bad == {g \in 1..Len(sel) : pool_data_raises(pls[sel[g].model], wbs, selected_property)}
        last == IF bad = {} THEN Len(sel) ELSE CHOOSE g \in bad : \A h \in bad : g <= h
    IN  [g \in 1..last |-> sel[g].model]

\* The pool data of every selected group, in group order
RECURSIVE pool_data_per_group(_, _, _, _)
pool_data_per_group(sel, pls, wbs, selected_property) ==
    IF sel = <<>>
    THEN <<>>
    ELSE <<get_pool_data(pls[Head(sel).model], wbs, selected_property)>>
         \o pool_data_per_group(Tail(sel), pls, wbs, selected_property)

\* data_pooled_per_time: for every time, one nan-filtered sample per selected group
data_pooled_per_time(sel, pls, wbs, selected_property) ==
    LET per_group == pool_data_per_group(sel, pls, wbs, selected_property)
    IN  [t \in TimeIdx |-> [g \in 1..Len(sel) |-> nan_filtered_values(per_group[g].rows[t])]]

\* a row computed without the test for an empty sample
global_group_row_unchecked(values_per_group) ==
    LET sizes == [g \in 1..Len(values_per_group) |-> Len(values_per_group[g])]
        test == IF Len(values_per_group) > 2 THEN "kruskal" ELSE "mannwhitneyu two-sided"
    IN  [sizes |-> sizes,
         p |-> PValue(test, values_per_group),
         calls |-> <<[test |-> test, args |-> values_per_group]>>]

\* a row whose test is chosen with >= 2 in place of > 2
global_group_row_kruskal(values_per_group) ==
    LET sizes == [g \in 1..Len(values_per_group) |-> Len(values_per_group[g])]
        test == IF Len(values_per_group) >= 2 THEN "kruskal" ELSE "mannwhitneyu two-sided"
    IN  IF \E g \in 1..Len(values_per_group) : values_per_group[g] = <<>>
        THEN [sizes |-> sizes, p |-> PNaN, calls |-> <<>>]
        ELSE [sizes |-> sizes,
              p |-> IF AllIdentical(values_per_group) THEN PNaN ELSE PValue(test, values_per_group),
              calls |-> <<[test |-> test, args |-> values_per_group]>>]

\* One row of evaluate_global_group_effect: the sizes, the p-value and the
\* library tests called for it
global_group_row(values_per_group) ==
    LET sizes == [g \in 1..Len(values_per_group) |-> Len(values_per_group[g])]
        test == IF Len(values_per_group) > 2 THEN "kruskal" ELSE "mannwhitneyu two-sided"
    IN  IF \E g \in 1..Len(values_per_group) : values_per_group[g] = <<>>
        THEN [sizes |-> sizes, p |-> PNaN, calls |-> <<>>]
        ELSE [sizes |-> sizes,
              p |-> IF AllIdentical(values_per_group) THEN PNaN ELSE PValue(test, values_per_group),
              calls |-> <<[test |-> test, args |-> values_per_group]>>]

\* AnimalsGroupsModel.evaluate_global_group_effect
evaluate_global_group_effect(grps, pls, wbs, selected_property) ==
    LET sel == selected_groups(grps)
        reads == pools_read(sel, pls, wbs, selected_property)
    IN  IF Len(sel) < 2
        THEN Outcome("returned_None", <<>>, <<>>)
        ELSE IF \E g \in 1..Len(sel) : pool_data_raises(pls[sel[g].model], wbs, selected_property)
        THEN Outcome("raised_InvalidPoolData", <<>>, reads)
        ELSE LET pooled == data_pooled_per_time(sel, pls, wbs, selected_property)
             IN  Outcome("returned",
                         [index |-> times,
                          columns |-> [groups |-> group_names(sel), last |-> "p value"],
                          rows |-> [t \in TimeIdx |-> global_group_row(pooled[t])]],
                         reads)

\* a matrix that is nan only when every sample is empty
pairwise_group_matrix_all_empty(names, values_per_group) ==
    IF \A g \in 1..Len(values_per_group) : values_per_group[g] = <<>>
    THEN [nan |-> TRUE, index |-> names, columns |-> names, test |-> "", args |-> <<>>]
    ELSE [nan |-> FALSE, index |-> names, columns |-> names,
          test |-> "posthoc_dunn", args |-> values_per_group]

\* One matrix of evaluate_pairwise_group_effect
pairwise_group_matrix(names, values_per_group) ==
    IF \E g \in 1..Len(values_per_group) : values_per_group[g] = <<>>
    THEN [nan |-> TRUE, index |-> names, columns |-> names, test |-> "", args |-> <<>>]
    ELSE [nan |-> FALSE, index |-> names, columns |-> names,
          test |-> "posthoc_dunn", args |-> values_per_group]

\* AnimalsGroupsModel.evaluate_pairwise_group_effect
evaluate_pairwise_group_effect(grps, pls, wbs, selected_property) ==
    LET sel == selected_groups(grps)
        reads == pools_read(sel, pls, wbs, selected_property)
    IN  IF Len(sel) < 2
        THEN Outcome("returned_None", <<>>, <<>>)
        ELSE IF \E g \in 1..Len(sel) : pool_data_raises(pls[sel[g].model], wbs, selected_property)
        THEN Outcome("raised_InvalidPoolData", <<>>, reads)
        ELSE LET pooled == data_pooled_per_time(sel, pls, wbs, selected_property)
             IN  Outcome("returned",
                         [keys |-> times,
                          values |-> [t \in TimeIdx |->
                                        pairwise_group_matrix(group_names(sel), pooled[t])]],
                         reads)

\* AnimalsGroupsModel.evaluate_pairwise_group_effect when sk.posthoc_dunn
\* raises ValueError on the samples of the times in dunn_raises: line 200
\* stands in no try block, so the first such call ends the method
evaluate_pairwise_group_effect_when(grps, pls, wbs, selected_property, dunn_raises) ==
    LET outcome == evaluate_pairwise_group_effect(grps, pls, wbs, selected_property)
    IN  IF /\ outcome.status = "returned"
           /\ \E t \in dunn_raises : outcome.value.values[t].test = "posthoc_dunn"
        THEN Outcome("raised_ValueError", <<>>, outcome.reads)
        ELSE outcome

\* every row kept, the ones with a missing value too
time_effect_rows_unfiltered(pool_data) == [t \in TimeIdx |-> t]

\* The rows evaluate_global_time_effect appends to data: those without any nan
time_effect_rows(pool_data) ==
    SelectSeq([t \in TimeIdx |-> t], LAMBDA t : ~any_nan(pool_data.rows[t]))

\* AnimalsPoolModel.evaluate_global_time_effect
pool_evaluate_global_time_effect(animals, wbs, selected_property) ==
    IF pool_data_raises(animals, wbs, selected_property)
    THEN Outcome("raised_InvalidPoolData", <<>>, <<>>)
    ELSE LET pool_data == get_pool_data(animals, wbs, selected_property)
             kept == time_effect_rows(pool_data)
             data == [k \in 1..Len(kept) |-> pool_data.rows[kept[k]]]
         IN  Outcome("returned",
                     [p |-> IF FriedmanRaises(data) THEN PNaN ELSE PValue("friedmanchisquare", data),
                      calls |-> <<[test |-> "friedmanchisquare", args |-> data]>>],
                     <<>>)

\* valid_times taken to be the whole grid
valid_times_all(pool_data) == times

\* The labels of the rows evaluate_pairwise_time_effect keeps (valid_times)
valid_times(pool_data) == [k \in 1..Len(time_effect_rows(pool_data)) |->
                              times[time_effect_rows(pool_data)[k]]]

\* AnimalsPoolModel.evaluate_pairwise_time_effect.  The matrix is the one
\* posthoc_dunn gives on data, or nan-filled when it raised ValueError; in
\* both cases it is labelled with valid_times.
pool_evaluate_pairwise_time_effect(animals, wbs, selected_property) ==
    IF pool_data_raises(animals, wbs, selected_property)
    THEN Outcome("raised_InvalidPoolData", <<>>, <<>>)
    ELSE LET pool_data == get_pool_data(animals, wbs, selected_property)
             kept == time_effect_rows(pool_data)
             data == [k \in 1..Len(kept) |-> pool_data.rows[kept[k]]]
             labels == valid_times(pool_data)
         IN  IF data = <<>>
             THEN Outcome("raised_InvalidPoolData", <<>>, <<>>)
             ELSE Outcome("returned",
                          [index |-> labels, columns |-> labels,
                           calls |-> <<[test |-> "posthoc_dunn", args |-> data]>>],
                          <<>>)

\* n_target_times not in range(1, len(ExcelWorkbookReader.times)-1), with
\* the upper end of the spin box of the dialog
invalid_target_times_dialog(n_target_times) ==
    n_target_times \notin 1..(Len(times) - 1)

\* n_target_times not in range(1, len(ExcelWorkbookReader.times)-1)
invalid_target_times(n_target_times) ==
    n_target_times \notin 1..(Len(times) - 2)

\* v == np.nan: false for every v, nan included
equals_nan(v) == FALSE

\* The backward search of evaluate_premortem_time_effect, indices from 0:
\* from the last index, go down while the value == np.nan; below 0, take
\* the last index
RECURSIVE scan_back(_, _)
scan_back(property_slice, index) ==
    IF equals_nan(property_slice[index + 1])
    THEN IF index - 1 < 0
         THEN Len(property_slice) - 1
         ELSE scan_back(property_slice, index - 1)
    ELSE index

last_non_nan_index(property_slice) == scan_back(property_slice, Len(property_slice) - 1)

\* the loop stopped at the first animal without reference value
premortem_candidates_break(animals, wbs, selected_property) ==
    LET found == SelectSeq(animals, LAMBDA animal :
                     /\ get_workbook(wbs, animal) # <<>>
                     /\ ~property_slice_raises(get_workbook(wbs, animal)[1], selected_property))
        bad == {k \in 1..Len(found) :
                   get_property_slice(get_workbook(wbs, found[k])[1], selected_property)[1] = NaN}
        stop == IF bad = {} THEN Len(found) + 1 ELSE CHOOSE k \in bad : \A h \in bad : k <= h
    IN  [k \in 1..(stop - 1) |-> found[k]]

\* The animals that pass the first three tests of the loop: a workbook, the
\* property, a reference value at T-30 that is not nan
premortem_candidates(animals, wbs, selected_property) ==
    SelectSeq(animals, LAMBDA animal :
        /\ get_workbook(wbs, animal) # <<>>
        /\ ~property_slice_raises(get_workbook(wbs, animal)[1], selected_property)
        /\ get_property_slice(get_workbook(wbs, animal)[1], selected_property)[1] # NaN)

\* first_index of an animal, from 0
first_index(property_slice, n_target_times) ==
    last_non_nan_index(property_slice) - n_target_times

\* times and data_per_animal of a selected animal
premortem_times(property_slice, n_target_times) ==
    <<times[1]>> \o [k \in 1..(n_target_times + 1) |->
                       times[first_index(property_slice, n_target_times) + k]]

premortem_series(property_slice, n_target_times) ==
    <<property_slice[1]>> \o [k \in 1..(n_target_times + 1) |->
                                property_slice[first_index(property_slice, n_target_times) + k]]

\* AnimalsPoolModel.evaluate_premortem_time_effect.  reads lists the animals
\* the loop went through.  With no selected animal the name times is not
\* bound when the Dunn matrix is labelled and the call ends in an error that
\* is none of the module's own.
pool_evaluate_premortem_time_effect(animals, wbs, selected_property, n_target_times) ==
    IF invalid_target_times(n_target_times)
    THEN Outcome("raised_InvalidTimeError", <<>>, <<>>)
    ELSE LET slice(animal) == get_property_slice(get_workbook(wbs, animal)[1], selected_property)
             selected_animals ==
                 SelectSeq(premortem_candidates(animals, wbs, selected_property),
                           LAMBDA animal : first_index(slice(animal), n_target_times) >= 0)
             series == [c \in 1..Len(selected_animals) |->
                          premortem_series(slice(selected_animals[c]), n_target_times)]
         IN  IF selected_animals = <<>>
             THEN Outcome("raised_UnboundLocalError", <<>>, animals)
             ELSE LET labels == premortem_times(slice(selected_animals[Len(selected_animals)]),
                                                n_target_times)
                      rows == [r \in 1..Len(labels) |->
                                 [c \in 1..Len(selected_animals) |-> series[c][r]]]
                  IN  Outcome("returned",
                              [p |-> IF FriedmanRaises(rows) THEN PNaN
                                     ELSE PValue("friedmanchisquare", rows),
                               index |-> labels, columns |-> labels,
                               selected_animals |-> selected_animals,
                               data |-> series,
                               calls |-> <<[test |-> "friedmanchisquare", args |-> rows],
                                           [test |-> "posthoc_dunn", args |-> rows]>>],
                              animals)

\* ------------------------------------------- the time effects of the groups
\* AnimalsGroupsModel.evaluate_global_time_effect: the handler catches
\* UnknownPropertyError only, which the pool never raises; the pool's
\* InvalidPoolData leaves the loop and the method
evaluate_global_time_effect(grps, pls, wbs, selected_property) ==
    LET sel == selected_groups(grps)
        p_value(g) == pool_evaluate_global_time_effect(pls[sel[g].model], wbs, selected_property)
    IN  IF Len(sel) < 1
        THEN Outcome("returned_None", <<>>, <<>>)
        ELSE IF \E g \in 1..Len(sel) : p_value(g).status = "raised_InvalidPoolData"
        THEN Outcome("raised_InvalidPoolData", <<>>,
                     pools_read(sel, pls, wbs, selected_property))
        ELSE Outcome("returned",
                     [index |-> group_names(sel),
                      columns |-> <<"p-value">>,
                      values |-> [g \in 1..Len(sel) |-> p_value(g).value.p]],
                     [g \in 1..Len(sel) |-> sel[g].model])

\* AnimalsGroupsModel.evaluate_pairwise_time_effect: a group whose pool
\* raises InvalidPoolData is logged and left out
evaluate_pairwise_time_effect(grps, pls, wbs, selected_property) ==
    LET sel == selected_groups(grps)
        dunn_matrix(g) == pool_evaluate_pairwise_time_effect(pls[g.model], wbs, selected_property)
        kept == SelectSeq(sel, LAMBDA g : dunn_matrix(g).status # "raised_InvalidPoolData")
    IN  IF Len(sel) < 1
        THEN Outcome("returned_None", <<>>, <<>>)
        ELSE Outcome("returned",
                     [keys |-> group_names(kept),
                      values |-> [g \in 1..Len(kept) |-> dunn_matrix(kept[g]).value]],
                     [g \in 1..Len(sel) |-> sel[g].model])

\* ------------------------------------------------------------------ state
Called(op, prop, pool, outcome) ==
    [op |-> op, prop |-> prop, pool |-> pool, n |-> 0, args |-> <<>>,
     status |-> outcome.status, value |-> outcome.value, reads |-> outcome.reads]

\* No query has returned since the last change of the models
NoCall == Called("none", "", 0, Outcome("none", <<>>, <<>>))

Init ==
    /\ workbooks = <<>>
    /\ pools = [p \in PoolIds |-> <<>>]
    /\ groups = <<>>
    /\ ret = NoCall

\* MainWindow.on_load_monitoring_file, one file of the batch
AddWorkbook(f) ==
    /\ ret = NoCall
    /\ LET loaded == \E i \in 1..Len(workbooks) : workbooks[i].filename = f
       IN  workbooks' = add_workbook(workbooks, ExcelWorkbookReader(f, IF loaded THEN 2 ELSE 1))
    /\ ret' = NoCall
    /\ UNCHANGED <<pools, groups>>

\* MainWindow.on_load_monitoring_file on the files chosen in the dialog
Batches == UNION {[1..n -> Sources] : n \in 0..MaxBatch}

OnLoadMonitoringFile(xlsx_files) ==
    /\ ret = NoCall
    /\ LET loaded == load_files(workbooks, xlsx_files)
       IN  /\ workbooks' = loaded.workbooks
           /\ ret' = [Called("on_load_monitoring_file", "", 0,
                             Outcome("returned",
                                     [n_loaded_files |-> loaded.n_loaded_files,
                                      errors |-> loaded.errors], <<>>))
                      EXCEPT !.args = [xlsx_files |-> xlsx_files, before |-> workbooks]]
    /\ UNCHANGED <<pools, groups>>

AddAnimal(pid, animal) ==
    /\ ret = NoCall
    /\ pools' = [pools EXCEPT ![pid] = add_animal(pools[pid], workbooks, animal)]
    /\ ret' = NoCall
    /\ UNCHANGED <<workbooks, groups>>

RemoveAnimal(pid, animal) ==
    /\ ret = NoCall
    /\ pools' = [pools EXCEPT ![pid] = remove_animal(pools[pid], animal)]
    /\ ret' = NoCall
    /\ UNCHANGED <<workbooks, groups>>

AddModel(name, pid) ==
    /\ ret = NoCall
    /\ groups' = add_model(groups, name, pid)
    /\ ret' = NoCall
    /\ UNCHANGED <<workbooks, pools>>

RemoveAnimalsPoolModel(pid) ==
    /\ ret = NoCall
    /\ groups' = remove_animals_pool_model(groups, pid)
    /\ ret' = NoCall
    /\ UNCHANGED <<workbooks, pools>>

SetData(row, value, role) ==
    /\ ret = NoCall
    /\ groups' = setData(groups, row, value, role)
    /\ ret' = NoCall
    /\ UNCHANGED <<workbooks, pools>>

EvaluateGlobalGroupEffect(prop) ==
    /\ ret = NoCall
    /\ ret' = Called("evaluate_global_group_effect", prop, 0,
                     evaluate_global_group_effect(groups, pools, workbooks, prop))
    /\ UNCHANGED <<workbooks, pools, groups>>

EvaluatePairwiseGroupEffect(prop) ==
    /\ ret = NoCall
    /\ ret' = Called("evaluate_pairwise_group_effect", prop, 0,
                     evaluate_pairwise_group_effect(groups, pools, workbooks, prop))
    /\ UNCHANGED <<workbooks, pools, groups>>

\* The times on whose samples the Dunn test of the library may fail
DunnFailures == {{1}, {7}, {2, 12}}

EvaluatePairwiseGroupEffectWhen(prop, dunn_raises) ==
    /\ ret = NoCall
    /\ ret' = [Called("evaluate_pairwise_group_effect", prop, 0,
                      evaluate_pairwise_group_effect_when(groups, pools, workbooks, prop,
                                                          dunn_raises))
               EXCEPT !.args = [dunn_raises |-> dunn_raises]]
    /\ UNCHANGED <<workbooks, pools, groups>>

\* The properties the time effects of the groups are asked for: file 2 has
\* no "B"; files 1 and 2 share no sampled time of "D"
GroupTimeProperties == {"B", "D"}

EvaluateGlobalTimeEffect(prop) ==
    /\ ret = NoCall
    /\ ret' = Called("evaluate_global_time_effect", prop, 0,
                     evaluate_global_time_effect(groups, pools, workbooks, prop))
    /\ UNCHANGED <<workbooks, pools, groups>>

EvaluatePairwiseTimeEffect(prop) ==
    /\ ret = NoCall
    /\ ret' = Called("evaluate_pairwise_time_effect", prop, 0,
                     evaluate_pairwise_time_effect(groups, pools, workbooks, prop))
    /\ UNCHANGED <<workbooks, pools, groups>>

PoolEvaluateGlobalTimeEffect(pid, prop) ==
    /\ ret = NoCall
    /\ ret' = Called("pool.evaluate_global_time_effect", prop, pid,
                     pool_evaluate_global_time_effect(pools[pid], workbooks, prop))
    /\ UNCHANGED <<workbooks, pools, groups>>

PoolEvaluatePairwiseTimeEffect(pid, prop) ==
    /\ ret = NoCall
    /\ ret' = Called("pool.evaluate_pairwise_time_effect", prop, pid,
                     pool_evaluate_pairwise_time_effect(pools[pid], workbooks, prop))
    /\ UNCHANGED <<workbooks, pools, groups>>

PoolEvaluatePremortemTimeEffect(pid, prop, n) ==
    /\ ret = NoCall
    /\ ret' = [Called("pool.evaluate_premortem_time_effect", prop, pid,
                      pool_evaluate_premortem_time_effect(pools[pid], workbooks, prop, n))
               EXCEPT !.n = n]
    /\ UNCHANGED <<workbooks, pools, groups>>

\* The properties a pooled matrix is asked for: "Z" is a column of no workbook
PoolProperties == {"A", "B", "Z"}

PoolGetPoolData(pid, prop) ==
    /\ ret = NoCall
    /\ ret' = Called("pool.get_pool_data", prop, pid,
                     pool_get_pool_data(pools[pid], workbooks, prop))
    /\ UNCHANGED <<workbooks, pools, groups>>

PoolGetReducedData(pid, prop, statistics) ==
    /\ ret = NoCall
    /\ \E selected_statistics \in selected_statistics_lists(statistics) :
          ret' = [Called("pool.get_reduced_data", prop, pid,
                         pool_get_reduced_data(pools[pid], workbooks, prop, selected_statistics))
                  EXCEPT !.args = [selected_statistics |-> statistics]]
    /\ UNCHANGED <<workbooks, pools, groups>>

\* ------------------------------------------------- the reader on its own
\* The sheets a reader may be built on: every block is made of rows or
\* columns drawn from a few fillings (blank, full, censored, ...).
DataColumnInputs ==
    {[i \in TimeIdx |-> None],
     [i \in TimeIdx |-> 10 + i],
     [i \in TimeIdx |-> IF i <= 6 THEN 10 + i ELSE None]}

GasRowInputs ==
    {[i \in TimeIdx |-> None],
     [i \in TimeIdx |-> 20 + i],
     [i \in TimeIdx |-> IF i = 1 THEN None ELSE 20 + i]}

NfsRowInputs ==
    {[c \in 1..10 |-> None],
     <<1, 91, 2, 92, 3, 93, 4, 94, 5, 95>>,
     <<None, 91, None, 92, None, 93, None, 94, None, 95>>,
     <<1, None, None, None, None, None, None, None, 5, 95>>}

Books ==
    {[Data |-> [properties |-> <<"A">>, cells |-> [i \in TimeIdx |-> <<a[i]>>]],
      Gas  |-> [properties |-> <<"G">>, cells |-> <<g>>],
      NFS  |-> [properties |-> <<"B", "N">>, cells |-> <<b, n>>]] :
        a \in DataColumnInputs, g \in GasRowInputs, b \in NfsRowInputs, n \in NfsRowInputs}

\* The names and the labels the slices are asked for: "Z" is a column of no
\* sheet, "T7H" a label that is not of the grid
SliceProperties == {"A", "G", "B", "N", "Z"}
SliceTimes == {DefaultTimes, GivenTimes(<<>>), GivenTimes(<<"T7H">>),
               GivenTimes(<<"T6H", "T7H", "T0">>)}
SliceLabels == {"T-30", "T1H", "T6H", "T7H", "A"}

Parsed(op, book, frame) ==
    [Called(op, "", 0, Outcome("returned", frame, <<>>)) EXCEPT !.args = [book |-> book]]

ParseDataWorksheet(book) ==
    /\ ret = NoCall
    /\ ret' = Parsed("parse_data_worksheet", book, parse_data_worksheet(book))
    /\ UNCHANGED <<workbooks, pools, groups>>

ParseBloodGasWorksheet(book) ==
    /\ ret = NoCall
    /\ ret' = Parsed("parse_blood_gas_worksheet", book, parse_blood_gas_worksheet(book))
    /\ UNCHANGED <<workbooks, pools, groups>>

ParseNfsWorksheet(book) ==
    /\ ret = NoCall
    /\ ret' = Parsed("parse_nfs_worksheet", book, parse_nfs_worksheet(book))
    /\ UNCHANGED <<workbooks, pools, groups>>

GetPropertySlice(book, selected_property, selected_times) ==
    /\ ret = NoCall
    /\ LET result == reader_get_property_slice(book, selected_property, selected_times)
       IN  ret' = [Called("get_property_slice", selected_property, 0,
                          Outcome(result.status, result.value, <<>>))
                   EXCEPT !.args = [book |-> book, selected_times |-> selected_times]]
    /\ UNCHANGED <<workbooks, pools, groups>>

GetTimeSlice(book, selected_time) ==
    /\ ret = NoCall
    /\ LET result == reader_get_time_slice(book, selected_time)
       IN  ret' = [Called("get_time_slice", selected_time, 0,
                          Outcome(result.status, result.value, <<>>))
                   EXCEPT !.args = [book |-> book]]
    /\ UNCHANGED <<workbooks, pools, groups>>

\* The caller has used the result of the query; control is back in the event loop
ResultConsumed ==
    /\ ret # NoCall
    /\ ret' = NoCall
    /\ UNCHANGED <<workbooks, pools, groups>>

Next ==
    \/ \E f \in Files : AddWorkbook(f)
    \/ \E xlsx_files \in Batches : OnLoadMonitoringFile(xlsx_files)
    \/ \E pid \in PoolIds, a \in Files : AddAnimal(pid, a)
    \/ \E pid \in PoolIds, a \in Files : RemoveAnimal(pid, a)
    \/ \E name \in GroupNames, pid \in PoolIds : AddModel(name, pid)
    \/ \E pid \in PoolIds : RemoveAnimalsPoolModel(pid)
    \/ \E row \in 0..MaxGroups, value \in {Unchecked, PartiallyChecked, Checked},
          role \in {CheckStateRole, EditRole} : SetData(row, value, role)
    \/ \E prop \in Properties : EvaluateGlobalGroupEffect(prop)
    \/ \E prop \in Properties : EvaluatePairwiseGroupEffect(prop)
    \/ \E prop \in Properties, dunn_raises \in DunnFailures :
          EvaluatePairwiseGroupEffectWhen(prop, dunn_raises)
    \/ \E prop \in GroupTimeProperties : EvaluateGlobalTimeEffect(prop)
    \/ \E prop \in GroupTimeProperties : EvaluatePairwiseTimeEffect(prop)
    \/ \E pid \in PoolIds, prop \in Properties : PoolEvaluateGlobalTimeEffect(pid, prop)
    \/ \E pid \in PoolIds, prop \in TimeProperties : PoolEvaluatePairwiseTimeEffect(pid, prop)
    \/ \E pid \in PoolIds, prop \in TimeProperties, n \in TargetTimes :
          PoolEvaluatePremortemTimeEffect(pid, prop, n)
    \/ \E pid \in PoolIds, prop \in PoolProperties : PoolGetPoolData(pid, prop)
    \/ \E pid \in PoolIds, prop \in Properties, statistics \in StatisticsInputs :
          PoolGetReducedData(pid, prop, statistics)
    \/ ResultConsumed

Spec == Init /\ [][Next]_vars

\* ------------------------------------------------- the registry and its pools
\* Loads, pool membership changes and the pools' own queries, with no group:
\* the pools read the registry and nothing of the groups model.
NextPools ==
    \/ \E f \in Files : AddWorkbook(f)
    \/ \E pid \in PoolIds, a \in Files : AddAnimal(pid, a)
    \/ \E pid \in PoolIds, a \in Files : RemoveAnimal(pid, a)
    \/ \E pid \in PoolIds, prop \in Properties : PoolEvaluateGlobalTimeEffect(pid, prop)
    \/ ResultConsumed

SpecPools == Init /\ [][NextPools]_vars

\* ------------------------------------------------------------ the groups model
\* Additions, removals and selection changes of groups; add_model,
\* remove_animals_pool_model and setData read no pool content.
NextGroups ==
    \/ \E name \in GroupNames, pid \in PoolIds : AddModel(name, pid)
    \/ \E pid \in PoolIds : RemoveAnimalsPoolModel(pid)
    \/ \E row \in 0..MaxGroups, value \in {Unchecked, PartiallyChecked, Checked},
          role \in {CheckStateRole, EditRole} : SetData(row, value, role)

SpecGroups == Init /\ [][NextGroups]_vars

\* ------------------------------------------------------ the group statistics
\* The cross-group evaluations on a session that has been set up: every file
\* is loaded, every pool holds any duplicate-free list of loaded animals, and
\* the groups MaxGroups, .., 1 have been added in that order over the pools
\* 1, 2, .., 1, 2, ..  From there the selection is toggled and the
\* evaluations are called.
DuplicateFreeLists(S) ==
    UNION {{s \in [1..n -> S] : \A i, j \in 1..n : i # j => s[i] # s[j]} : n \in 0..Cardinality(S)}

InitStats ==
    /\ workbooks = [f \in 1..MaxFiles |-> ExcelWorkbookReader(f, 1)]
    /\ pools \in [PoolIds -> DuplicateFreeLists(Files)]
    /\ groups = [k \in 1..MaxGroups |->
                    [name |-> MaxGroups + 1 - k,
                     model |-> ((k - 1) % MaxPools) + 1,
                     selected |-> TRUE]]
    /\ ret = NoCall

NextStats ==
    \/ \E row \in 0..MaxGroups, value \in {Unchecked, PartiallyChecked, Checked},
          role \in {CheckStateRole, EditRole} : SetData(row, value, role)
    \/ \E prop \in Properties : EvaluateGlobalGroupEffect(prop)
    \/ \E prop \in Properties : EvaluatePairwiseGroupEffect(prop)
    \/ ResultConsumed

SpecStats == InitStats /\ [][NextStats]_vars

\* --------------------------------------------------- the pools' time effects
\* Every file is loaded; animals are put in and taken out of the pools and
\* the pairwise and premortem time effects of a pool are called.
InitTimeEffects ==
    /\ workbooks = [f \in 1..MaxFiles |-> ExcelWorkbookReader(f, 1)]
    /\ pools = [p \in PoolIds |-> <<>>]
    /\ groups = <<>>
    /\ ret = NoCall

NextTimeEffects ==
    \/ \E pid \in PoolIds, a \in Files : AddAnimal(pid, a)
    \/ \E pid \in PoolIds, a \in Files : RemoveAnimal(pid, a)
    \/ \E pid \in PoolIds, prop \in TimeProperties : PoolEvaluatePairwiseTimeEffect(pid, prop)
    \/ \E pid \in PoolIds, prop \in TimeProperties, n \in TargetTimes :
          PoolEvaluatePremortemTimeEffect(pid, prop, n)
    \/ ResultConsumed

SpecTimeEffects == InitTimeEffects /\ [][NextTimeEffects]_vars

\* ------------------------------------------------------------- the reader
\* The parsers and the slices of a reader, called on the sheets of a workbook.
NextReader ==
    \/ \E book \in Books : ParseDataWorksheet(book)
    \/ \E book \in Books : ParseBloodGasWorksheet(book)
    \/ \E book \in Books : ParseNfsWorksheet(book)
    \/ \E book \in Books, selected_property \in SliceProperties, selected_times \in SliceTimes :
          GetPropertySlice(book, selected_property, selected_times)
    \/ \E book \in Books, selected_time \in SliceLabels : GetTimeSlice(book, selected_time)
    \/ ResultConsumed

SpecReader == Init /\ [][NextReader]_vars

\* ------------------------------------------------------------ batch loading
\* Batches of sources are loaded one after the other into the registry.
NextLoad ==
    \/ \E xlsx_files \in Batches : OnLoadMonitoringFile(xlsx_files)
    \/ ResultConsumed

SpecLoad == Init /\ [][NextLoad]_vars

\* --------------------------------------------------------- the pooled matrix
\* Loads and pool membership changes, and the pooled matrix of a pool asked
\* for at any moment in between.
NextPoolData ==
    \/ \E f \in Files : AddWorkbook(f)
    \/ \E pid \in PoolIds, a \in Files : AddAnimal(pid, a)
    \/ \E pid \in PoolIds, a \in Files : RemoveAnimal(pid, a)
    \/ \E pid \in PoolIds, prop \in PoolProperties : PoolGetPoolData(pid, prop)
    \/ ResultConsumed

SpecPoolData == Init /\ [][NextPoolData]_vars

\* ------------------------------------------------------ the reduced statistics
\* Every file is loaded; animals are put in and taken out of the pools and
\* the reduced data of a pool are asked for.
NextReduced ==
    \/ \E pid \in PoolIds, a \in Files : AddAnimal(pid, a)
    \/ \E pid \in PoolIds, a \in Files : RemoveAnimal(pid, a)
    \/ \E pid \in PoolIds, prop \in Properties, statistics \in StatisticsInputs :
          PoolGetReducedData(pid, prop, statistics)
    \/ ResultConsumed

SpecReduced == InitTimeEffects /\ [][NextReduced]_vars

\* ---------------------------------------------- the evaluations of the groups
\* On a session that has been set up as for the group statistics, the
\* selection is toggled and the group and time effects of the groups are called.
NextEvaluations ==
    \/ \E row \in 0..MaxGroups, value \in {Unchecked, PartiallyChecked, Checked},
          role \in {CheckStateRole, EditRole} : SetData(row, value, role)
    \/ \E prop \in Properties : EvaluateGlobalGroupEffect(prop)
    \/ \E prop \in Properties : EvaluatePairwiseGroupEffect(prop)
    \/ \E prop \in Properties, dunn_raises \in DunnFailures :
          EvaluatePairwiseGroupEffectWhen(prop, dunn_raises)
    \/ \E prop \in GroupTimeProperties : EvaluateGlobalTimeEffect(prop)
    \/ \E prop \in GroupTimeProperties : EvaluatePairwiseTimeEffect(prop)
    \/ ResultConsumed

SpecEvaluations == InitStats /\ [][NextEvaluations]_vars

\* ------------------------------------------------- the selection of the groups
\* Every file is loaded and every pool holds one animal; groups are added,
\* removed, checked and unchecked, and the global group effect is called.
InitSelection ==
    /\ workbooks = [f \in 1..MaxFiles |-> ExcelWorkbookReader(f, 1)]
    /\ pools = [p \in PoolIds |-> <<((p - 1) % MaxFiles) + 1>>]
    /\ groups = <<>>
    /\ ret = NoCall

NextSelection ==
    \/ \E name \in GroupNames, pid \in PoolIds : AddModel(name, pid)
    \/ \E pid \in PoolIds : RemoveAnimalsPoolModel(pid)
    \/ \E row \in 0..MaxGroups, value \in {Unchecked, PartiallyChecked, Checked},
          role \in {CheckStateRole, EditRole} : SetData(row, value, role)
    \/ \E prop \in Properties : EvaluateGlobalGroupEffect(prop)
    \/ ResultConsumed

SpecSelection == InitSelection /\ [][NextSelection]_vars

\* ============================================================== properties
Registered(a) == \E i \in 1..Len(workbooks) : workbooks[i].filename = a

NoDuplicates(s) == \A i, j \in 1..Len(s) : i # j => s[i] # s[j]

IsPrefix(s, t) == Len(s) <= Len(t) /\ \A i \in 1..Len(s) : s[i] = t[i]

\* ---- C1
\* From every reachable pool, add_animal of an id already in the pool, or of
\* an id that is not (yet) in the registry, gives back the same member list;
\* any other id is appended at the end.  Adding the same id a second time
\* changes nothing more, so an empty pool has size 1 after adding twice.  And
\* no step ever grows a pool otherwise than by appending one new, registered id.
C1_CallContract ==
    \A pid \in PoolIds, a \in Files :
        LET before == pools[pid]
            after == add_animal(before, workbooks, a)
        IN  /\ (a \in Range(before) \/ ~Registered(a)) => after = before
            /\ (a \notin Range(before) /\ Registered(a)) => after = Append(before, a)
            /\ add_animal(after, workbooks, a) = after
            /\ (before = <<>> /\ Registered(a)) => Len(add_animal(after, workbooks, a)) = 1

C1_Growth ==
    \A pid \in PoolIds :
        Len(pools'[pid]) > Len(pools[pid]) =>
            \E a \in Files :
                /\ a \notin Range(pools[pid])
                /\ Registered(a)
                /\ pools'[pid] = Append(pools[pid], a)

C1_AddAnimalIdempotentGuarded == [](C1_CallContract) /\ [][C1_Growth]_vars

\* A pool that holds one animal while another file is not loaded yet: both
\* no-op cases of add_animal are at hand.
C1_Witness ==
    \E pid \in PoolIds, a, b \in Files :
        pools[pid] = <<a>> /\ Registered(a) /\ ~Registered(b)

\* ---- C2
\* The registry holds every filename once; each stored reader is the first
\* object built for its file (a later load of the same file neither replaces
\* it nor adds a row); every step leaves the registry as it is or appends one
\* reader of a new filename, so nothing is removed or reordered.
C2_Registry ==
    /\ NoDuplicates([i \in 1..Len(workbooks) |-> workbooks[i].filename])
    /\ \A i \in 1..Len(workbooks) : workbooks[i].object = 1
    /\ \A f \in Files :
          Registered(f) => add_workbook(workbooks, ExcelWorkbookReader(f, 2)) = workbooks

C2_Step ==
    \/ workbooks' = workbooks
    \/ /\ Len(workbooks') = Len(workbooks) + 1
       /\ IsPrefix(workbooks, workbooks')
       /\ ~Registered(workbooks'[Len(workbooks')].filename)

C2_RegistryAppendOnly == [](C2_Registry) /\ [][C2_Step]_vars

\* Both files loaded, the second file first
C2_Witness ==
    /\ Len(workbooks) = 2
    /\ workbooks[1].filename = 2
    /\ workbooks[2].filename = 1

\* ---- C3
\* add_model with a name the registry already has gives back the registry as
\* it is, whatever pool comes with it: the group keeps its pool, its selected
\* flag (also when deselected) and its place.  A new name is appended last,
\* selected, and no step grows the registry in another way.
C3_CallContract ==
    /\ NoDuplicates(GroupKeys(groups))
    /\ \A name \in GroupNames, pid \in PoolIds :
          IF \E i \in 1..Len(groups) : groups[i].name = name
          THEN add_model(groups, name, pid) = groups
          ELSE add_model(groups, name, pid) =
                   Append(groups, [name |-> name, model |-> pid, selected |-> TRUE])

C3_Growth ==
    Len(groups') > Len(groups) =>
        /\ Len(groups') = Len(groups) + 1
        /\ IsPrefix(groups, groups')
        /\ groups'[Len(groups')].name \notin Range(GroupKeys(groups))

C3_AddModelIdempotent == [](C3_CallContract) /\ [][C3_Growth]_vars

\* A deselected group followed by another group: re-adding the first name
\* with the other pool is a call the contract covers.
C3_Witness ==
    /\ Len(groups) >= 2
    /\ ~groups[1].selected
    /\ \E pid \in PoolIds : pid # groups[1].model

\* ---- C4
\* Whatever the interleaving of loads, add_animal and remove_animal, no pool
\* holds an animal twice and every member of a pool is a file of the registry.
C4_PoolWellFormed ==
    \A pid \in PoolIds :
        /\ NoDuplicates(pools[pid])
        /\ \A k \in 1..Len(pools[pid]) : Registered(pools[pid][k])

\* A pool with two members in the reverse order of loading, next to a pool
\* emptied or never filled.
C4_Witness ==
    \E pid, qid \in PoolIds :
        /\ Len(pools[pid]) = 2
        /\ Len(workbooks) = 2
        /\ pools[pid][1] = workbooks[2].filename
        /\ pools[qid] = <<>>
\* ------------------------------------------------- what the spec expects
\* The value of property p of file f at time t, read off the file
Cell(f, p, t) ==
    CASE p = "A" -> CellA(f, t)
      [] p = "B" -> CellB(f, t)
      [] p = "D" -> CellD(f, t)
      [] p = "G" -> CellG(f, t)
      [] OTHER   -> CellN(f, t)

\* The members of a pool that have a record with property p, in pool order
Members(pid, p) == SelectSeq(pools[pid], LAMBDA m : Registered(m) /\ p \in Columns(m))

\* The non-missing values of the members of a pool at time t, in pool order
Sample(pid, p, t) ==
    LET present == SelectSeq(Members(pid, p), LAMBDA m : Cell(m, p, t) # NaN)
    IN  [k \in 1..Len(present) |-> Cell(present[k], p, t)]

SelectedIdx == {i \in 1..Len(groups) : groups[i].selected}
NSel == Cardinality(SelectedIdx)

\* The k-th selected group in insertion order
SelGroup(k) ==
    groups[CHOOSE i \in SelectedIdx : Cardinality({j \in SelectedIdx : j <= i}) = k]

SelNames == [k \in 1..NSel |-> SelGroup(k).name]
SelPools == [k \in 1..NSel |-> SelGroup(k).model]

\* One sample per selected group at time t
SamplesAt(p, t) == [k \in 1..NSel |-> Sample(SelGroup(k).model, p, t)]
EmptyAt(p, t) == \E k \in 1..NSel : Sample(SelGroup(k).model, p, t) = <<>>

GlobalGroupReturned == ret.op = "evaluate_global_group_effect" /\ ret.status = "returned"
PairwiseGroupReturned == ret.op = "evaluate_pairwise_group_effect" /\ ret.status = "returned"

\* ---- C5
\* In a returned global group effect, row t has a nan p-value and no test is
\* run when some selected group has no non-missing value at t; otherwise one
\* test is run on exactly the samples of time t, and the row is nan or not
\* according to those samples alone, whatever the other rows hold.
C5_RowIndependence ==
    GlobalGroupReturned =>
        \A t \in TimeIdx :
            LET row == ret.value.rows[t]
                samples == SamplesAt(ret.prop, t)
            IN  IF EmptyAt(ret.prop, t)
                THEN row.p = PNaN /\ row.calls = <<>>
                ELSE /\ Len(row.calls) = 1
                     /\ row.calls[1].args = samples
                     /\ row.p.nan <=> AllIdentical(samples)
                     /\ ~row.p.nan => row.p.args = samples

\* A result with a nan row for an empty sample and a numeric row
C5_Witness ==
    /\ GlobalGroupReturned
    /\ \E t, u \in TimeIdx :
          /\ EmptyAt(ret.prop, t) /\ ret.value.rows[t].p.nan
          /\ ~ret.value.rows[u].p.nan

\* ---- C6
\* In a returned global group effect, every row without an empty sample has
\* run exactly one test: two-sided Mann-Whitney U when 2 groups are selected,
\* Kruskal-Wallis when more are; rows with an empty sample have run none.
C6_TestSelection ==
    GlobalGroupReturned =>
        \A t \in TimeIdx :
            LET row == ret.value.rows[t]
            IN  IF EmptyAt(ret.prop, t)
                THEN row.calls = <<>>
                ELSE /\ Len(row.calls) = 1
                     /\ NSel = 2 => row.calls[1].test = "mannwhitneyu two-sided"
                     /\ NSel > 2 => row.calls[1].test = "kruskal"
                     /\ NSel >= 2
                     /\ ~row.p.nan => row.p.test = row.calls[1].test

\* Three selected groups and a row on which Kruskal-Wallis gave a p-value
C6_Witness ==
    /\ GlobalGroupReturned
    /\ NSel = 3
    /\ \E t \in TimeIdx :
          /\ ~ret.value.rows[t].p.nan
          /\ ret.value.rows[t].p.test = "kruskal"

\* ---- C7
\* A returned global group effect has the 12 canonical times as rows, in
\* order, the selected groups in insertion order as columns, then the p-value;
\* the size of group g at time t counts the members of g's pool data whose
\* value at t is not missing.
C7_SampleSizes ==
    GlobalGroupReturned =>
        /\ ret.value.index = times
        /\ DOMAIN ret.value.rows = 1..Len(times)
        /\ ret.value.columns.groups = SelNames
        /\ ret.value.columns.last = "p value"
        /\ \A t \in TimeIdx :
              /\ Len(ret.value.rows[t].sizes) = NSel
              /\ \A k \in 1..NSel :
                    ret.value.rows[t].sizes[k] =
                        Cardinality({m \in Range(pools[SelGroup(k).model]) :
                                        /\ Registered(m)
                                        /\ ret.prop \in Columns(m)
                                        /\ Cell(m, ret.prop, t) # NaN})

\* Two groups with two animals each at one time (sizes [2,2]) and fewer at another
C7_Witness ==
    /\ GlobalGroupReturned
    /\ NSel = 2
    /\ \E t, u \in TimeIdx :
          /\ ret.value.rows[t].sizes = <<2, 2>>
          /\ ret.value.rows[u].sizes = <<1, 1>>

\* ---- C8
\* Both group effect evaluations work on the groups selected at call time
\* only: with fewer than 2 of them the call returns None and reads no pool;
\* otherwise it reads the pools of selected groups only, in order, and a
\* returned result has one label, one size and one sample per selected group.
C8_SelectedGroupsOnly ==
    ret.op \in {"evaluate_global_group_effect", "evaluate_pairwise_group_effect"} =>
        IF NSel < 2
        THEN ret.status = "returned_None" /\ ret.reads = <<>> /\ ret.value = <<>>
        ELSE /\ ret.status # "returned_None"
             /\ IsPrefix(ret.reads, SelPools)
             /\ ret.status = "returned" =>
                   /\ ret.reads = SelPools
                   /\ ret.op = "evaluate_global_group_effect" =>
                         /\ ret.value.columns.groups = SelNames
                         /\ \A t \in TimeIdx :
                               /\ Len(ret.value.rows[t].sizes) = NSel
                               /\ \A c \in 1..Len(ret.value.rows[t].calls) :
                                     Len(ret.value.rows[t].calls[c].args) = NSel
                   /\ ret.op = "evaluate_pairwise_group_effect" =>
                         \A t \in TimeIdx :
                             /\ ret.value.values[t].index = SelNames
                             /\ ~ret.value.values[t].nan =>
                                   Len(ret.value.values[t].args) = NSel

\* A result over two selected groups while a third group is deselected
C8_Witness ==
    /\ GlobalGroupReturned
    /\ Len(groups) = 3
    /\ NSel = 2
    /\ ~groups[2].selected

\* ---- C9
\* A returned pairwise group effect holds one matrix per canonical time, in
\* canonical order, labelled on both axes with the selected group names in
\* insertion order; the matrix of time t is nan when a selected group has an
\* empty sample at t and is the Dunn result on the samples of t otherwise.
C9_PairwiseMatrices ==
    PairwiseGroupReturned =>
        /\ ret.value.keys = times
        /\ DOMAIN ret.value.values = 1..Len(times)
        /\ Len(times) = 12
        /\ \A t \in TimeIdx :
              LET m == ret.value.values[t]
              IN  /\ m.index = SelNames
                  /\ m.columns = SelNames
                  /\ IF EmptyAt(ret.prop, t)
                     THEN m.nan /\ m.test = ""
                     ELSE ~m.nan /\ m.test = "posthoc_dunn" /\ m.args = SamplesAt(ret.prop, t)

\* A result with a nan matrix at one time and a Dunn matrix at another
C9_Witness ==
    /\ PairwiseGroupReturned
    /\ \E t, u \in TimeIdx :
          /\ ret.value.values[t].nan
          /\ ~ret.value.values[u].nan
          /\ Len(ret.value.values[u].args[1]) = 2

\* ---- C10
\* The Friedman test of a pool's global time effect gets exactly the rows of
\* the pool data in which every member has a value, in canonical order, one
\* value per member; with fewer than the 3 rows the test needs the result is
\* nan, not an error.
EligibleTimes(pid, p) ==
    {t \in TimeIdx : \A k \in 1..Len(Members(pid, p)) : Cell(Members(pid, p)[k], p, t) # NaN}

C10_FriedmanSamples ==
    (ret.op = "pool.evaluate_global_time_effect" /\ Members(ret.pool, ret.prop) # <<>>) =>
        LET members == Members(ret.pool, ret.prop)
            eligible == EligibleTimes(ret.pool, ret.prop)
        IN  /\ ret.status = "returned"
            /\ Len(ret.value.calls) = 1
            /\ ret.value.calls[1].test = "friedmanchisquare"
            /\ LET args == ret.value.calls[1].args
               IN  /\ Len(args) = Cardinality(eligible)
                   /\ \A t \in eligible :
                         args[Cardinality({u \in eligible : u <= t})] =
                             [k \in 1..Len(members) |-> Cell(members[k], ret.prop, t)]
                   /\ Cardinality(eligible) < 3 => ret.value.p = PNaN
                   /\ Cardinality(eligible) >= 3 => ret.value.p = PValue("friedmanchisquare", args)

\* A pool of two animals of which one is censored: six rows kept, six skipped
C10_Witness ==
    /\ ret.op = "pool.evaluate_global_time_effect"
    /\ ret.status = "returned"
    /\ Len(Members(ret.pool, ret.prop)) = 2
    /\ Len(ret.value.calls[1].args) = 6
    /\ ~ret.value.p.nan

\* ---- C11
\* The matrix of a pool's pairwise time effect is labelled, on rows and on
\* columns, with the labels of the times at which every member of the pool
\* data has a value, in canonical order, and with no other label; when the
\* pool data has no such time the call raises InvalidPoolData and returns
\* no matrix.
EligibleLabels(pid, p) ==
    LET eligible == EligibleTimes(pid, p)
        kept == SelectSeq([t \in TimeIdx |-> t], LAMBDA t : t \in eligible)
    IN  [k \in 1..Len(kept) |-> times[kept[k]]]

PremortemCall == ret.op = "pool.evaluate_premortem_time_effect"
PremortemReturned == PremortemCall /\ ret.status = "returned"

\* The canonical index, from 0, of the last value of animal m that is not missing
LastSampled(m, p) ==
    (CHOOSE t \in TimeIdx : Cell(m, p, t) # NaN /\ \A u \in TimeIdx : u > t => Cell(m, p, u) = NaN) - 1

\* The members of the pool with the property and a baseline that is not missing
WithBaseline(pid, p) == SelectSeq(Members(pid, p), LAMBDA m : Cell(m, p, 1) # NaN)

\* The column an animal has in the stacked data of a returned premortem call
PremortemColumn(m) ==
    ret.value.data[CHOOSE c \in 1..Len(ret.value.selected_animals) :
                       ret.value.selected_animals[c] = m]

\* ---- C12
\* In a returned premortem time effect with window n, every member with a
\* baseline and at least n samples before its last non-missing sample, at
\* canonical index L, contributes the baseline followed by the n samples
\* that end at, and include, index L.
C12_PremortemWindow ==
    PremortemReturned =>
        \A k \in 1..Len(WithBaseline(ret.pool, ret.prop)) :
            LET m == WithBaseline(ret.pool, ret.prop)[k]
                L == LastSampled(m, ret.prop)
            IN  L >= ret.n =>
                    /\ m \in Range(ret.value.selected_animals)
                    /\ PremortemColumn(m) =
                           <<Cell(m, ret.prop, 1)>>
                           \o [j \in 1..ret.n |-> Cell(m, ret.prop, (L + 1) - ret.n + j)]

\* ---- C13
\* In a returned premortem time effect with window n, a member with fewer
\* than n samples before its last non-missing sample is not among the
\* selected animals and has no column in the stacked data.
C13_PremortemShortSeries ==
    PremortemReturned =>
        \A k \in 1..Len(WithBaseline(ret.pool, ret.prop)) :
            LET m == WithBaseline(ret.pool, ret.prop)[k]
            IN  LastSampled(m, ret.prop) < ret.n =>
                    m \notin Range(ret.value.selected_animals)

\* ---- C14
\* In a returned premortem time effect with window n, every selected animal
\* contributes a series of n+1 values, and the labels of the result are n+1.
C14_PremortemLength ==
    PremortemReturned =>
        /\ \A c \in 1..Len(ret.value.data) : Len(ret.value.data[c]) = ret.n + 1
        /\ Len(ret.value.index) = ret.n + 1
        /\ Len(ret.value.columns) = ret.n + 1

\* ---- C15
\* evaluate_premortem_time_effect raises InvalidTimeError exactly when n is
\* not in 1..10 (the 12 labels of the grid less 2); it then has gone through
\* no animal and hands back nothing, whatever the pool holds.  For n in
\* 1..10 it goes through the animals of the pool.
C15_PremortemWindowSize ==
    PremortemCall =>
        /\ Len(times) - 2 = 10
        /\ (ret.status = "raised_InvalidTimeError") <=> ~(1 <= ret.n /\ ret.n <= Len(times) - 2)
        /\ ret.status = "raised_InvalidTimeError" => (ret.value = <<>> /\ ret.reads = <<>>)
        /\ ret.status # "raised_InvalidTimeError" => ret.reads = pools[ret.pool]

\* A window of 11 refused on a pool with an animal that has a baseline
C15_Witness ==
    /\ PremortemCall
    /\ ret.n = 11
    /\ ret.status = "raised_InvalidTimeError"
    /\ WithBaseline(ret.pool, ret.prop) # <<>>

\* ---- C16
\* In a premortem time effect with a valid window, a member whose value at
\* T-30 is missing is not among the selected animals, whatever the rest of
\* its series; every member of the pool is gone through all the same, and a
\* member with a baseline and a value at the last time of the grid is
\* selected and makes the call return, also when it comes after a member
\* without baseline.
C16_PremortemBaseline ==
    (PremortemCall /\ ret.status # "raised_InvalidTimeError") =>
        LET sure == SelectSeq(WithBaseline(ret.pool, ret.prop),
                              LAMBDA m : Cell(m, ret.prop, Len(times)) # NaN)
        IN  /\ ret.reads = pools[ret.pool]
            /\ sure # <<>> => ret.status = "returned"
            /\ ret.status = "returned" =>
                  /\ \A c \in 1..Len(ret.value.selected_animals) :
                        /\ ret.value.selected_animals[c] \in Range(Members(ret.pool, ret.prop))
                        /\ Cell(ret.value.selected_animals[c], ret.prop, 1) # NaN
                        /\ ret.value.data[c][1] = Cell(ret.value.selected_animals[c], ret.prop, 1)
                  /\ \A k \in 1..Len(sure) : sure[k] \in Range(ret.value.selected_animals)

\* A pool whose first animal has no baseline and whose second animal is selected
C16_Witness ==
    /\ PremortemReturned
    /\ Len(pools[ret.pool]) = 2
    /\ Cell(pools[ret.pool][1], ret.prop, 1) = NaN
    /\ ret.value.selected_animals = <<pools[ret.pool][2]>>

\* ---- C17
\* parse_nfs_worksheet gives, for every property of the sheet, a series of
\* 12 slots over the canonical grid: every slot whose index (from 0) is not
\* one of 0, 1, 5, 8, 11 is nan, and the slot of the i-th of these indices
\* holds the i-th sampled value of the property's row, the sampled values
\* being in every other column from the first.
C17_NfsSparseExtraction ==
    ret.op = "parse_nfs_worksheet" =>
        LET sheet == ret.args.book.NFS
            out == ret.value
            schedule == <<0, 1, 5, 8, 11>>
        IN  /\ ret.status = "returned"
            /\ out.columns = sheet.properties
            /\ DOMAIN out.rows = 1..12
            /\ \A c \in 1..Len(sheet.properties) :
                  /\ \A i \in 0..11 :
                        i \notin Range(schedule) => out.rows[i + 1][c] = NaN
                  /\ \A k \in 1..5 :
                        sheet.cells[c][2 * k - 1] # None =>
                            out.rows[schedule[k] + 1][c] = sheet.cells[c][2 * k - 1]

\* The sampled values 1..5 land at the indices 0, 1, 5, 8, 11
C17_Witness ==
    /\ ret.op = "parse_nfs_worksheet"
    /\ ret.args.book.NFS.cells[1] = <<1, 91, 2, 92, 3, 93, 4, 94, 5, 95>>
    /\ [i \in 1..12 |-> ret.value.rows[i][1]] =
           <<1, 2, NaN, NaN, NaN, 3, NaN, NaN, 4, NaN, NaN, 5>>

\* ---- C18
\* Each of the three parsers, on a sheet whose data cells are all blank,
\* returns a table over the canonical grid in which every cell is nan.
AllNaN(frame) ==
    \A i \in TimeIdx : \A c \in 1..Len(frame.columns) : frame.rows[i][c] = NaN

C18_EmptySheets ==
    /\ ret.op = "parse_data_worksheet" =>
          ((\A i \in TimeIdx : \A c \in 1..Len(ret.args.book.Data.properties) :
                ret.args.book.Data.cells[i][c] = None)
             => (ret.status = "returned" /\ AllNaN(ret.value)))
    /\ ret.op = "parse_blood_gas_worksheet" =>
          ((\A i \in TimeIdx : \A c \in 1..Len(ret.args.book.Gas.properties) :
                ret.args.book.Gas.cells[c][i] = None)
             => (ret.status = "returned" /\ AllNaN(ret.value)))
    /\ ret.op = "parse_nfs_worksheet" =>
          ((\A c \in 1..Len(ret.args.book.NFS.properties) : \A j \in 1..10 :
                ret.args.book.NFS.cells[c][j] = None)
             => (ret.status = "returned" /\ AllNaN(ret.value)))

\* ---- C19
\* get_property_slice of a property some sheet lists, with no selected
\* times, returns a series whose index is the 12 canonical times in
\* canonical order and whose value at each time is the one the parser of
\* that sheet gave for the property at that time.
ExtractedBy(book, property) ==
    IF property \in Range(book.Data.properties) THEN parse_data_worksheet(book)
    ELSE IF property \in Range(book.Gas.properties) THEN parse_blood_gas_worksheet(book)
    ELSE parse_nfs_worksheet(book)

Listed(book) ==
    Range(book.Data.properties) \cup Range(book.Gas.properties) \cup Range(book.NFS.properties)

C19_RoundTrip ==
    (/\ ret.op = "get_property_slice"
     /\ ~ret.args.selected_times.given
     /\ ret.prop \in Listed(ret.args.book)) =>
        LET frame == ExtractedBy(ret.args.book, ret.prop)
            c == CHOOSE c \in 1..Len(frame.columns) : frame.columns[c] = ret.prop
        IN  /\ ret.status = "returned"
            /\ ret.value.index = times
            /\ Len(ret.value.values) = Len(times)
            /\ \A t \in TimeIdx : ret.value.values[t] = frame.rows[t][c]

\* The slice of a sparsely sampled property
C19_Witness ==
    /\ ret.op = "get_property_slice"
    /\ ret.prop = "B"
    /\ ~ret.args.selected_times.given
    /\ ret.status = "returned"
    /\ ret.value.values[1] = 1
    /\ ret.value.values[6] = 3
    /\ ret.value.values[3] = NaN

\* ---- C20
\* get_property_slice raises UnknownPropertyError exactly for the names no
\* sheet of the workbook lists, whatever the selected times, and returns for
\* a listed name with no selected times; get_time_slice raises
\* InvalidTimeError exactly for the labels that are not of the canonical
\* grid and returns for the others.
C20_SliceErrors ==
    /\ ret.op = "get_property_slice" =>
          /\ (ret.status = "raised_UnknownPropertyError") <=> (ret.prop \notin Listed(ret.args.book))
          /\ (ret.prop \in Listed(ret.args.book) /\ ~ret.args.selected_times.given) =>
                ret.status = "returned"
    /\ ret.op = "get_time_slice" =>
          /\ (ret.status = "raised_InvalidTimeError") <=> (\A i \in 1..12 : times[i] # ret.prop)
          /\ (\E i \in 1..12 : times[i] = ret.prop) =>
                (ret.status = "returned" /\ ret.value.index = <<"A", "G", "B", "N">>)

\* An unknown name asked for with a list of times that holds no valid label
C20_Witness ==
    /\ ret.op = "get_property_slice"
    /\ ret.prop = "Z"
    /\ ret.args.selected_times = GivenTimes(<<"T7H">>)
    /\ ret.status = "raised_UnknownPropertyError"
\* ---- C21
\* After on_load_monitoring_file on a batch of sources: a source fails (and
\* is logged) exactly when one of the sheets 'Suivi', 'Data', 'Gaz du sang',
\* 'NFS' is missing from it, and such a source is not in the registry; every
\* source of the batch that has the four sheets is in the registry, whatever
\* failed before it in the batch; and the registry from before the batch is
\* still there, in front.
RequiredSheets == {"Suivi", "Data", "Gaz du sang", "NFS"}

HasRequiredSheets(x) == RequiredSheets \subseteq get_sheet_names(x)

BatchLoaded == ret.op = "on_load_monitoring_file"

C21_BatchIsolation ==
    BatchLoaded =>
        LET batch == ret.args.xlsx_files
        IN  /\ \A i \in 1..Len(batch) :
                  /\ HasRequiredSheets(batch[i]) => Registered(batch[i])
                  /\ ~HasRequiredSheets(batch[i]) =>
                        /\ ~Registered(batch[i])
                        /\ batch[i] \in Range(ret.value.errors)
            /\ \A x \in Range(ret.value.errors) : x \in Range(batch) /\ ~HasRequiredSheets(x)
            /\ \A i \in 1..Len(workbooks) :
                  \/ workbooks[i] \in Range(ret.args.before)
                  \/ workbooks[i].filename \in Range(batch)
            /\ IsPrefix(ret.args.before, workbooks)
            /\ ret.status = "returned"

\* A batch whose first source lacks a sheet and whose later sources are two
\* valid files that were not loaded before
C21_Witness ==
    /\ BatchLoaded
    /\ Len(ret.args.xlsx_files) = 3
    /\ ~HasRequiredSheets(ret.args.xlsx_files[1])
    /\ HasRequiredSheets(ret.args.xlsx_files[2])
    /\ HasRequiredSheets(ret.args.xlsx_files[3])
    /\ ret.args.xlsx_files[2] # ret.args.xlsx_files[3]
    /\ ret.args.before = <<>>
    /\ Len(workbooks) = 2

\* ---- C22
\* get_pool_data(property) of a pool returns a table with one column per
\* member whose record has the property, in pool order, each column holding
\* that member's values over the twelve times; members without the property
\* are left out and the call goes on.  It raises InvalidPoolData exactly when
\* no member has the property, which includes the empty pool.
PoolDataCalled == ret.op = "pool.get_pool_data"

C22_PoolData ==
    PoolDataCalled =>
        LET members == Members(ret.pool, ret.prop)
        IN  /\ ret.reads = pools[ret.pool]
            /\ (ret.status = "raised_InvalidPoolData") <=> (members = <<>>)
            /\ pools[ret.pool] = <<>> => ret.status = "raised_InvalidPoolData"
            /\ members # <<>> =>
                  /\ ret.status = "returned"
                  /\ ret.value.columns = members
                  /\ \A t \in TimeIdx :
                        ret.value.rows[t] =
                            [c \in 1..Len(members) |-> Cell(members[c], ret.prop, t)]

\* A pool of two animals asked for a property that only the second has: the
\* table has that one column
C22_Witness ==
    /\ PoolDataCalled
    /\ ret.status = "returned"
    /\ Len(pools[ret.pool]) = 2
    /\ ret.value.columns = <<pools[ret.pool][2]>>

\* ---- C28
\* Whatever loads, add_animal and remove_animal calls came before it, the
\* table a get_pool_data call returns has as columns the members the pool has
\* at the moment of the call that have the property, in the pool's order at
\* that moment.  Step by step: once remove_animal has taken a member out, the
\* next table has no column for it; once add_animal has put a member with the
\* property in, the next table has its column, in last place; a load changes
\* the table of no pool.
NextColumns(pid, p) ==
    LET next == pool_get_pool_data(pools'[pid], workbooks', p)
    IN  IF next.status = "returned" THEN next.value.columns ELSE <<>>

C28_Current ==
    PoolDataCalled =>
        LET current == SelectSeq(pools[ret.pool],
                                 LAMBDA m : Registered(m) /\ ret.prop \in Columns(m))
        IN  IF current = <<>> THEN ret.status = "raised_InvalidPoolData"
            ELSE ret.status = "returned" /\ ret.value.columns = current

C28_Step ==
    /\ \A pid \in PoolIds :
          pools'[pid] # pools[pid] =>
              \A p \in PoolProperties :
                  LET columns == NextColumns(pid, p)
                  IN  \A a \in Files :
                          /\ (a \in Range(pools[pid]) /\ a \notin Range(pools'[pid])) =>
                                a \notin Range(columns)
                          /\ (/\ a \notin Range(pools[pid])
                              /\ a \in Range(pools'[pid])
                              /\ p \in Columns(a)) =>
                                columns # <<>> /\ columns[Len(columns)] = a
    /\ workbooks' # workbooks =>
          \A pid \in PoolIds, p \in PoolProperties :
              pool_get_pool_data(pools'[pid], workbooks', p) =
                  pool_get_pool_data(pools[pid], workbooks, p)
    /\ (ret'.op = "pool.get_pool_data" /\ ret = NoCall) =>
          LET call == pool_get_pool_data(pools[ret'.pool], workbooks, ret'.prop)
          IN  ret'.status = call.status /\ ret'.value = call.value

C28_NeverStale == [](C28_Current) /\ [][C28_Step]_vars

\* A table asked for while a loaded animal with the property is not (or no
\* longer) in the pool, and another pool lists the animals against the order
\* of the loads
C28_Witness ==
    /\ PoolDataCalled
    /\ ret.status = "returned"
    /\ Len(workbooks) = 2
    /\ ret.value.columns = <<workbooks[2].filename>>
    /\ ret.prop \in Columns(workbooks[1].filename)
    /\ \E pid \in PoolIds : pid # ret.pool /\ pools[pid] = <<workbooks[2].filename, workbooks[1].filename>>

\* ---- C23
\* get_reduced_data called with no statistic list reduces with every
\* registered statistic; called with a list it reduces with the names of the
\* list that are registered, each once, and with no other (unknown names are
\* ignored); it raises InvalidPoolData when none of the given names is
\* registered.  The table returned has one column per statistic used, each
\* labelled with its statistic and computed from the pooled matrix, and one
\* row per canonical time.
ReducedCalled == ret.op = "pool.get_reduced_data"

StatisticsUsed ==
    IF ret.args.selected_statistics = StatisticsNone
    THEN {statistical_functions[k] : k \in 1..Len(statistical_functions)}
    ELSE {s \in {ret.args.selected_statistics[k] : k \in 1..Len(ret.args.selected_statistics)} :
            \E k \in 1..Len(statistical_functions) : statistical_functions[k] = s}

C23_ReducedData ==
    ReducedCalled =>
        /\ StatisticsUsed = {} => ret.status = "raised_InvalidPoolData"
        /\ (StatisticsUsed # {} /\ Members(ret.pool, ret.prop) # <<>>) =>
              /\ ret.status = "returned"
              /\ Len(ret.value.columns) = Cardinality(StatisticsUsed)
              /\ Range(ret.value.columns) = StatisticsUsed
              /\ ret.args.selected_statistics = StatisticsNone => ret.value.columns = statistical_functions
              /\ DOMAIN ret.value.rows = TimeIdx
              /\ \A t \in TimeIdx, c \in 1..Len(ret.value.columns) :
                    ret.value.rows[t][c] =
                        [func |-> ret.value.columns[c],
                         args |-> [m \in 1..Len(Members(ret.pool, ret.prop)) |->
                                      Cell(Members(ret.pool, ret.prop)[m], ret.prop, t)]]

\* Two names asked of which one is not registered: one column.  (The other
\* cases: no list, and a list of unregistered names only.)
C23_Witness ==
    /\ ReducedCalled
    /\ ret.status = "returned"
    /\ ret.args.selected_statistics = <<"variance", "std">>
    /\ ret.value.columns = <<"std">>
    /\ Len(Members(ret.pool, ret.prop)) = 2

\* ---- C24
\* evaluate_global_time_effect of the groups model, called while a selected
\* group has a pool with no member that has the property (an empty pool for
\* one), leaves that group out and returns the table of the p-values of all
\* the other selected groups, in group order.
UsableIdx(p) == {i \in SelectedIdx : Members(groups[i].model, p) # <<>>}

UsableGroups(p) ==
    SelectSeq(groups, LAMBDA g : g.selected /\ Members(g.model, p) # <<>>)

C24_GlobalTimeIsolation ==
    (ret.op = "evaluate_global_time_effect" /\ NSel >= 1 /\ UsableIdx(ret.prop) # SelectedIdx) =>
        /\ ret.status = "returned"
        /\ ret.value.index = [k \in 1..Len(UsableGroups(ret.prop)) |-> UsableGroups(ret.prop)[k].name]
        /\ \A k \in 1..Len(UsableGroups(ret.prop)) :
              ret.value.values[k] =
                  pool_evaluate_global_time_effect(pools[UsableGroups(ret.prop)[k].model],
                                                   workbooks, ret.prop).value.p

\* ---- C25
\* When the Dunn test fails on the samples of one time row, the pairwise
\* group effect still returns: the matrix of that time is nan-filled, and the
\* matrix of every other time is what it is without the failure.
DunnFailed ==
    /\ ret.op = "evaluate_pairwise_group_effect"
    /\ ret.args # <<>>
    /\ NSel >= 2
    /\ \A k \in 1..NSel : Members(SelGroup(k).model, ret.prop) # <<>>

C25_SliceDegradation ==
    DunnFailed =>
        /\ ret.status = "returned"
        /\ \A t \in TimeIdx :
              IF t \in ret.args.dunn_raises \/ EmptyAt(ret.prop, t)
              THEN ret.value.values[t].nan
              ELSE ret.value.values[t] =
                       pairwise_group_matrix(SelNames, SamplesAt(ret.prop, t))

\* ---- C26
\* An evaluation of the groups model (global or pairwise group effect,
\* global or pairwise time effect) that is asked with nothing to work on, no
\* group being selected in particular, ends with InvalidPoolData for its
\* caller; the registry, the pools and the groups are as before the call.
GroupEvaluations ==
    {"evaluate_global_group_effect", "evaluate_pairwise_group_effect",
     "evaluate_global_time_effect", "evaluate_pairwise_time_effect"}

NoUsableInput ==
    \/ NSel = 0
    \/ \A k \in 1..NSel : Members(SelGroup(k).model, ret.prop) = <<>>

C26_Surfaces == (ret.op \in GroupEvaluations /\ NoUsableInput) => ret.status = "raised_InvalidPoolData"

C26_StateKept == (ret'.op \in GroupEvaluations) => UNCHANGED <<workbooks, pools, groups>>

C26_ZeroInput == [](C26_Surfaces) /\ [][C26_StateKept]_vars

\* ---- C27
\* A premortem time effect called with a valid window on a pool of which no
\* member is kept (the pool is empty, or no member has the property with a
\* baseline) ends with InvalidPoolData or returns nan results; it ends with
\* no other error.
NoSurvivor ==
    /\ PremortemCall
    /\ ret.n \in 1..(Len(times) - 2)
    /\ WithBaseline(ret.pool, ret.prop) = <<>>

C27_PremortemNoSurvivor ==
    NoSurvivor =>
        \/ ret.status = "raised_InvalidPoolData"
        \/ ret.status = "returned" /\ ret.value.p = PNaN

\* ---- C29
\* setData with the check-state role on the row of a group makes the selected
\* flag of that group true when the value is Checked and false for every
\* other value, and leaves the rest as it is: the flags of the other groups,
\* the names, the pools and the order of the groups.  A step that changes
\* flags only changes the flag of one group, and no pool or workbook with it.
C29_CallContract ==
    \A row \in 0..(Len(groups) - 1), value \in {Unchecked, PartiallyChecked, Checked} :
        LET after == setData(groups, row, value, CheckStateRole)
        IN  /\ Len(after) = Len(groups)
            /\ after[row + 1].selected = (value = Checked)
            /\ after[row + 1].name = groups[row + 1].name
            /\ after[row + 1].model = groups[row + 1].model
            /\ \A i \in 1..Len(groups) : i # row + 1 => after[i] = groups[i]

FlagsOnly ==
    /\ groups' # groups
    /\ Len(groups') = Len(groups)
    /\ \A i \in 1..Len(groups) :
          groups'[i].name = groups[i].name /\ groups'[i].model = groups[i].model

C29_Step ==
    FlagsOnly =>
        /\ Cardinality({i \in 1..Len(groups) : groups'[i].selected # groups[i].selected}) = 1
        /\ \E row \in 0..(Len(groups) - 1), value \in {Unchecked, Checked} :
              groups' = setData(groups, row, value, CheckStateRole)
        /\ UNCHANGED <<workbooks, pools>>

C29_SetDataFrame == [](C29_CallContract) /\ [][C29_Step]_vars

\* Three groups of which the second alone has been unchecked
C29_Witness ==
    /\ Len(groups) = 3
    /\ groups[1].selected
    /\ ~groups[2].selected
    /\ groups[3].selected
    /\ \A pid \in PoolIds : pools[pid] # <<>>

\* ---- C30
\* A group that add_model stores under a name the model did not have is
\* selected in the state the step leads to; the flag of a group goes from
\* selected to not selected only in a setData step on that group with a value
\* other than Checked; so the global group effect called next after the
\* addition counts the new group: it is the last of the groups of the result.
Named(grps, name) == {i \in 1..Len(grps) : grps[i].name = name}

Flag(grps, name) == grps[CHOOSE i \in Named(grps, name) : TRUE].selected

C30_Added ==
    \A name \in GroupNames :
        (Named(groups, name) = {} /\ Named(groups', name) # {}) =>
            /\ Flag(groups', name)
            /\ groups'[Len(groups')].name = name
            /\ \A p \in Properties :
                  LET next == evaluate_global_group_effect(groups', pools', workbooks', p)
                  IN  /\ Len(selected_groups(groups)) >= 1 => next.status # "returned_None"
                      /\ next.status = "returned" =>
                            next.value.columns.groups[Len(next.value.columns.groups)] = name

C30_Kept ==
    \A name \in GroupNames :
        (/\ Named(groups, name) # {} /\ Named(groups', name) # {}
         /\ Flag(groups, name) /\ ~Flag(groups', name)) =>
            \E row \in 0..(Len(groups) - 1), value \in {Unchecked, PartiallyChecked} :
                /\ groups[row + 1].name = name
                /\ groups' = setData(groups, row, value, CheckStateRole)

C30_Evaluated ==
    GlobalGroupReturned =>
        \A i \in 1..Len(groups) :
            groups[i].selected => groups[i].name \in Range(ret.value.columns.groups)

C30_SelectedWhenAdded == [](C30_Evaluated) /\ [][C30_Added /\ C30_Kept]_vars

\* A global group effect returned while the first group is unchecked and two
\* groups added after it are counted, the last added being the last column
C30_Witness ==
    /\ GlobalGroupReturned
    /\ Len(groups) = 3
    /\ ~groups[1].selected
    /\ ret.value.columns.groups = <<groups[2].name, groups[3].name>>

====
